---- MODULE Spec2Model ----
(***************************************************************************)
(* Question-to-SQL resolution and guarded execution of app.py.             *)
(*                                                                         *)
(* Python strings are sequences of one-character strings, so that          *)
(* upper(), lower(), rstrip(), the `in` substring test and the f-string    *)
(* formatting of max_rows are computed character by character.  The        *)
(* alphabet is ASCII.                                                      *)
(***************************************************************************)
EXTENDS Integers, Sequences, FiniteSets, TLC

\* ---------------------------------------------------------------- bounds
\* words joined into one question
MaxWords == 3
\* fragments joined into one SQL statement
MaxFrags == 3
\* executions of load_model's body that are followed
MaxLoads == 2
\* connections left open that are followed
MaxConns == 2

\* ------------------------------------------------------ program constants
\* def execute_sql_safely(sql_query, db_path, max_rows=100)
max_rows == 100

\* ------------------------------------------------------- Python strings
LowerLetters ==
    <<"a","b","c","d","e","f","g","h","i","j","k","l","m",
      "n","o","p","q","r","s","t","u","v","w","x","y","z">>

UpperLetters ==
    <<"A","B","C","D","E","F","G","H","I","J","K","L","M",
      "N","O","P","Q","R","S","T","U","V","W","X","Y","Z">>

DigitChars == <<"0","1","2","3","4","5","6","7","8","9">>

\* position of character c in the sequence t, 0 when absent
IndexOf(c, t) ==
    IF \E i \in 1..Len(t) : t[i] = c
    THEN CHOOSE i \in 1..Len(t) : t[i] = c
    ELSE 0

\* the characters that occur in questions and statements
Alphabet ==
    {LowerLetters[i] : i \in 1..Len(LowerLetters)}
        \cup {UpperLetters[i] : i \in 1..Len(UpperLetters)}
        \cup {DigitChars[i] : i \in 1..Len(DigitChars)}
        \cup {" ", "*", "(", ")", ",", ";", "_", "?", "'", ":", "."}

UpperOf ==
    [c \in Alphabet |->
        LET k == IndexOf(c, LowerLetters)
        IN  IF k = 0 THEN c ELSE UpperLetters[k]]

LowerOf ==
    [c \in Alphabet |->
        LET k == IndexOf(c, UpperLetters)
        IN  IF k = 0 THEN c ELSE LowerLetters[k]]

\* str.upper()
upper(s) == [i \in 1..Len(s) |-> UpperOf[s[i]]]

\* str.lower()
lower(s) == [i \in 1..Len(s) |-> LowerOf[s[i]]]

\* sub occurs in s at position i
MatchAt(sub, s, i) == \A j \in 1..Len(sub) : s[i + j - 1] = sub[j]

\* sub in s
Contains(sub, s) == \E i \in 1..(Len(s) - Len(sub) + 1) : MatchAt(sub, s, i)

\* s.rstrip(ch) for a single character ch: every trailing ch is removed
RECURSIVE rstrip(_, _)
rstrip(s, ch) ==
    IF s # <<>> /\ s[Len(s)] = ch
    THEN rstrip(SubSeq(s, 1, Len(s) - 1), ch)
    ELSE s

\* f"{n}" for an int n >= 0
RECURSIVE IntToStr(_)
IntToStr(n) ==
    IF n < 10
    THEN <<DigitChars[n + 1]>>
    ELSE IntToStr(n \div 10) \o <<DigitChars[(n % 10) + 1]>>

\* ------------------------------------------------ Python values in a dict
\* A value of the result dict carries its type, so that None, a str, an int
\* and a DataFrame are told apart by v[1].
PyNone == <<"None">>

PyStr(s) == <<"str", s>>

PyInt(n) == <<"int", n>>

PyDataFrame(rows) == <<"DataFrame", rows>>

IsNone(v) == v[1] = "None"

\* ------------------------------------------------------ rule-based resolver
CountSql ==
    <<"S","E","L","E","C","T"," ","C","O","U","N","T","(","*",")"," ","a","s",
      " ","t","o","t","a","l","_","c","u","s","t","o","m","e","r","s"," ","F",
      "R","O","M"," ","c","u","s","t","o","m","e","r","s",";">>

TopCitySql ==
    <<"S","E","L","E","C","T"," ","c","i","t","y",","," ","C","O","U","N","T",
      "(","*",")"," ","a","s"," ","c","u","s","t","o","m","e","r","_","c","o",
      "u","n","t"," ","F","R","O","M"," ","c","u","s","t","o","m","e","r","s",
      " ","G","R","O","U","P"," ","B","Y"," ","c","i","t","y"," ","O","R","D",
      "E","R"," ","B","Y"," ","c","u","s","t","o","m","e","r","_","c","o","u",
      "n","t"," ","D","E","S","C"," ","L","I","M","I","T"," ","1","0",";">>

CitySql ==
    <<"S","E","L","E","C","T"," ","D","I","S","T","I","N","C","T"," ","c","i",
      "t","y",","," ","C","O","U","N","T","(","*",")"," ","a","s"," ","c","u",
      "s","t","o","m","e","r","_","c","o","u","n","t"," ","F","R","O","M"," ",
      "c","u","s","t","o","m","e","r","s"," ","G","R","O","U","P"," ","B","Y",
      " ","c","i","t","y"," ","O","R","D","E","R"," ","B","Y"," ","c","i","t",
      "y",";">>

RecentSql ==
    <<"S","E","L","E","C","T"," ","*"," ","F","R","O","M"," ","c","u","s","t",
      "o","m","e","r","s"," ","O","R","D","E","R"," ","B","Y"," ","r","e","g",
      "i","s","t","r","a","t","i","o","n","_","d","a","t","e"," ","D","E","S",
      "C"," ","L","I","M","I","T"," ","1","0",";">>

DefaultSql ==
    <<"S","E","L","E","C","T"," ","*"," ","F","R","O","M"," ","c","u","s","t",
      "o","m","e","r","s"," ","L","I","M","I","T"," ","1","0",";">>

\* the rules after the count rule (lines 31-40)
FallbackRest(q) ==
    IF (Contains(<<"t","o","p">>, q) \/ Contains(<<"b","e","s","t">>, q))
          /\ (Contains(<<"c","i","t","y">>, q) \/ Contains(<<"c","i","t","i","e","s">>, q))
    THEN TopCitySql
    ELSE IF (Contains(<<"w","h","a","t">>, q) \/ Contains(<<"w","h","i","c","h">>, q))
          /\ (Contains(<<"c","i","t","y">>, q) \/ Contains(<<"c","i","t","i","e","s">>, q))
    THEN CitySql
    ELSE IF Contains(<<"r","e","c","e","n","t">>, q) \/ Contains(<<"l","a","t","e","s","t">>, q)
    THEN RecentSql
    ELSE DefaultSql

\* the top-city rule tried before the count rule
MutFallbackOrder(question) ==
    LET q == lower(question)
    IN  IF FallbackRest(q) = TopCitySql
        THEN TopCitySql
        ELSE IF /\ \/ Contains(<<"h","o","w"," ","m","a","n","y">>, q)
                   \/ Contains(<<"c","o","u","n","t">>, q)
                /\ Contains(<<"c","u","s","t","o","m","e","r">>, q)
        THEN CountSql
        ELSE FallbackRest(q)

\* the recent rule ordering by a column named last_update
MutFallbackColumn(question) ==
    LET q == lower(question)
        r == IF /\ \/ Contains(<<"h","o","w"," ","m","a","n","y">>, q)
                   \/ Contains(<<"c","o","u","n","t">>, q)
                /\ Contains(<<"c","u","s","t","o","m","e","r">>, q)
             THEN CountSql
             ELSE FallbackRest(q)
    IN  IF r = RecentSql
        THEN <<"S","E","L","E","C","T"," ","*"," ","F","R","O","M"," ","c",
               "u","s","t","o","m","e","r","s"," ","O","R","D","E","R"," ",
               "B","Y"," ","l","a","s","t","_","u","p","d","a","t","e"," ",
               "D","E","S","C"," ","L","I","M","I","T"," ","1","0",";">>
        ELSE r

generate_sql_fallback(question) ==
    LET q == lower(question)
    IN  IF Contains(<<"h","o","w"," ","m","a","n","y">>, q) \/ Contains(<<"c","o","u","n","t">>, q)
        THEN IF Contains(<<"c","u","s","t","o","m","e","r">>, q)
             THEN CountSql
             ELSE FallbackRest(q)
        ELSE FallbackRest(q)

\* ------------------------------------------------------------ the database
\* What sqlite and pandas do with one call is the environment's choice:
\* sqlite3.connect raises, pd.read_sql raises, or the query matches `avail`
\* rows of the table before any LIMIT clause is applied.
RowCounts == {0, 1, max_rows, max_rows + 1}

DbOutcomes ==
    {[kind |-> "connect_error", avail |-> 0], [kind |-> "query_error", avail |-> 0]}
        \cup {[kind |-> "rows", avail |-> n] : n \in RowCounts}

StartsWith(s, prefix) ==
    Len(s) >= Len(prefix) /\ SubSeq(s, 1, Len(prefix)) = prefix

EndsWith(s, suffix) ==
    Len(s) >= Len(suffix) /\ SubSeq(s, Len(s) - Len(suffix) + 1, Len(s)) = suffix

\* number of digits that end s
RECURSIVE TrailingDigits(_)
TrailingDigits(s) ==
    IF s # <<>> /\ IndexOf(s[Len(s)], DigitChars) # 0
    THEN 1 + TrailingDigits(SubSeq(s, 1, Len(s) - 1))
    ELSE 0

\* the int written by the digits d
RECURSIVE StrToInt(_)
StrToInt(d) ==
    IF d = <<>>
    THEN 0
    ELSE StrToInt(SubSeq(d, 1, Len(d) - 1)) * 10 + (IndexOf(d[Len(d)], DigitChars) - 1)

\* The LIMIT clause that ends the statement text, as sqlite reads it: <<n>> for
\* a text ending in " LIMIT n" (any case, semicolons after it ignored), <<>>
\* for a text that ends otherwise.
LimitClause(text) ==
    LET u == upper(rstrip(text, ";"))
        k == TrailingDigits(u)
    IN  IF k > 0 /\ EndsWith(SubSeq(u, 1, Len(u) - k), <<" ","L","I","M","I","T"," ">>)
        THEN <<StrToInt(SubSeq(u, Len(u) - k + 1, Len(u)))>>
        ELSE <<>>

\* pd.read_sql(text, conn): raises when the engine fails or the text is no
\* SELECT statement, else returns the matched rows cut at the LIMIT clause.
ReadSql(text, db) ==
    IF db.kind # "rows" \/ ~StartsWith(upper(text), <<"S","E","L","E","C","T"," ">>)
    THEN [raised |-> TRUE, rows |-> <<>>]
    ELSE LET lim == LimitClause(text)
             n == IF lim # <<>> /\ lim[1] < db.avail THEN lim[1] ELSE db.avail
         IN  [raised |-> FALSE, rows |-> [i \in 1..n |-> i]]

\* ---------------------------------------------------------- safe executor
dangerous_keywords ==
    << <<"D","R","O","P">>,
       <<"D","E","L","E","T","E">>,
       <<"I","N","S","E","R","T">>,
       <<"U","P","D","A","T","E">>,
       <<"A","L","T","E","R">>,
       <<"C","R","E","A","T","E">>,
       <<"T","R","U","N","C","A","T","E">> >>

\* for keyword in dangerous_keywords: the index of the first keyword of the
\* list, from index i on, that sql_upper contains; 0 when the loop ends
RECURSIVE ScanKeywords(_, _)
ScanKeywords(i, sql_upper) ==
    IF i > Len(dangerous_keywords)
    THEN 0
    ELSE IF Contains(dangerous_keywords[i], sql_upper)
         THEN i
         ELSE ScanKeywords(i + 1, sql_upper)

\* the scan run on sql_query instead of sql_upper
MutDenylistCaseSensitive(sql_query) == ScanKeywords(1, sql_query)

\* the keyword that occurs first in the text instead of first in the list
MutDenylistByPosition(sql_query) ==
    LET u == upper(sql_query)
        found == {i \in 1..Len(dangerous_keywords) : Contains(dangerous_keywords[i], u)}
        at(i) == CHOOSE p \in 1..Len(u) :
                    /\ p + Len(dangerous_keywords[i]) - 1 <= Len(u)
                    /\ MatchAt(dangerous_keywords[i], u, p)
                    /\ \A p2 \in 1..(p - 1) : ~MatchAt(dangerous_keywords[i], u, p2)
    IN  IF found = {}
        THEN 0
        ELSE CHOOSE i \in found : \A k \in found : at(i) <= at(k)

DenylistHit(sql_query) == ScanKeywords(1, upper(sql_query))

DangerousError(keyword) ==
    <<"D","a","n","g","e","r","o","u","s"," ","o","p","e","r","a","t","i","o",
      "n"," ","'">> \o keyword \o <<"'"," ","n","o","t"," ","a","l","l","o",
                                               "w","e","d">>

SqlError(message) == <<"S","Q","L"," ","E","r","r","o","r",":"," ">> \o message

\* 'LIMIT' looked for in sql_query instead of sql_upper
MutLimitCaseSensitive(sql_query, mr) ==
    IF ~Contains(<<"L","I","M","I","T">>, sql_query)
    THEN rstrip(sql_query, ";") \o <<" ","L","I","M","I","T"," ">> \o IntToStr(mr) \o <<";">>
    ELSE sql_query

\* lines 57-58: the text handed to pd.read_sql
LimitEnforced(sql_query, mr) ==
    IF ~Contains(<<"L","I","M","I","T">>, upper(sql_query))
    THEN rstrip(sql_query, ";") \o <<" ","L","I","M","I","T"," ">> \o IntToStr(mr) \o <<";">>
    ELSE sql_query

\* What one call of execute_sql_safely does is a record: the dict returned,
\* whether sqlite3.connect returned a connection, whether conn.close() ran,
\* and the text given to pd.read_sql (<<>>: none).

\* lines 49-53: the return inside the keyword loop
Refused(hit) ==
    [result |-> [success |-> FALSE,
                 error |-> PyStr(DangerousError(dangerous_keywords[hit])),
                 data |-> PyNone],
     connected |-> FALSE, closed |-> FALSE, executed |-> <<>>]

\* lines 55-74: the try block on the text `text`, the database doing db
TryBlock(text, db) ==
    IF db.kind = "connect_error"
    THEN [result |-> [success |-> FALSE,
                      error |-> PyStr(SqlError(<<"u","n","a","b","l","e"," ","t","o"," ",
                                                 "o","p","e","n"," ","d","a","t","a","b",
                                                 "a","s","e"," ","f","i","l","e">>)),
                      data |-> PyNone],
          connected |-> FALSE, closed |-> FALSE, executed |-> <<>>]
    ELSE LET read == ReadSql(text, db)
         IN  IF read.raised
             THEN [result |-> [success |-> FALSE,
                               error |-> PyStr(SqlError(<<"E","x","e","c","u","t","i","o","n"," ",
                                                          "f","a","i","l","e","d"," ","o","n"," ",
                                                          "s","q","l">>)),
                               data |-> PyNone],
                   connected |-> TRUE, closed |-> FALSE, executed |-> text]
             ELSE [result |-> [success |-> TRUE,
                               error |-> PyNone,
                               data |-> PyDataFrame(read.rows),
                               row_count |-> PyInt(Len(read.rows))],
                   connected |-> TRUE, closed |-> TRUE, executed |-> text]

\* the call, for each thing db the database may do during it
ExecutorCall(hit, text) ==
    [db \in DbOutcomes |-> IF hit # 0 THEN Refused(hit) ELSE TryBlock(text, db)]

\* execute_sql_safely(sql_query, db_path, max_rows)
execute_sql_safely(sql_query, mr) ==
    ExecutorCall(DenylistHit(sql_query), LimitEnforced(sql_query, mr))

\* ------------------------------------------------------------ SQL resolver
\* What the body of load_model does when it runs.  app.py imports no name
\* `pipeline`, so as the file stands the call raises NameError; with the name
\* bound the call returns the model or raises OSError (weights unavailable).
LoadOutcomes == {"ok", "NameError", "OSError"}

\* texts the generative model may produce
ModelOutputs ==
    { <<"S","E","L","E","C","T"," ","*"," ","F","R","O","M"," ","c","u","s",
        "t","o","m","e","r","s">>,
      <<"S","E","L","E","C","T"," ","n","a","m","e"," ","F","R","O","M"," ",
        "c","u","s","t","o","m","e","r","s"," ","L","I","M","I","T"," ","1",
        "0","0","0">>,
      <<"D","R","O","P"," ","T","A","B","L","E"," ","c","u","s","t","o","m",
        "e","r","s">>,
      <<"s","e","l","e","c","t"," ","c","i","t","y"," ","f","r","o","m"," ",
        "c","u","s","t","o","m","e","r","s",";">> }

\* model(prompt, ...)[0]['generated_text']: raises, or returns a text
InferOutcomes ==
    {[raised |-> TRUE, text |-> <<>>]}
        \cup {[raised |-> FALSE, text |-> t] : t \in ModelOutputs}

\* except RuntimeError in place of except Exception
MutCatchesRuntimeError(exc) == exc = "RuntimeError"

\* except Exception: NameError, OSError and RuntimeError derive from Exception
Catches(exc) == exc \in {"NameError", "OSError", "RuntimeError"}

\* @st.cache_resource load_model(): a cached value is returned without running
\* the body; the body's value is cached when it returns, nothing is cached
\* when it raises.
load_model(cache, outcome) ==
    IF cache = "loaded"
    THEN [ran |-> FALSE, exc |-> "none", cache |-> "loaded"]
    ELSE IF outcome = "ok"
    THEN [ran |-> TRUE, exc |-> "none", cache |-> "loaded"]
    ELSE [ran |-> TRUE, exc |-> outcome, cache |-> cache]

\* generate_sql(question) with the model cache `cache`, under the outcomes env
generate_sql(q, cache, env) ==
    LET lm == load_model(cache, env.load)
        exc == IF lm.exc # "none" THEN lm.exc
               ELSE IF env.infer.raised THEN "RuntimeError"
               ELSE "none"
    IN  IF exc = "none"
        THEN [sql |-> env.infer.text, via |-> "model", raised |-> FALSE,
              exc |-> exc, ran |-> lm.ran, cache |-> lm.cache]
        ELSE IF Catches(exc)
        THEN [sql |-> generate_sql_fallback(q), via |-> "fallback", raised |-> FALSE,
              exc |-> exc, ran |-> lm.ran, cache |-> lm.cache]
        ELSE [sql |-> <<>>, via |-> "none", raised |-> TRUE,
              exc |-> exc, ran |-> lm.ran, cache |-> lm.cache]

\* ------------------------------------------------------------------ inputs
\* the four example questions of the page (lines 133-136) and two typed ones
UiQuestions ==
    { <<"H","o","w"," ","m","a","n","y"," ","c","u","s","t","o","m","e","r",
        "s"," ","d","o"," ","w","e"," ","h","a","v","e","?">>,
      <<"S","h","o","w"," ","m","e"," ","t","h","e"," ","t","o","p"," ","1",
        "0"," ","c","i","t","i","e","s"," ","b","y"," ","c","u","s","t","o",
        "m","e","r"," ","c","o","u","n","t">>,
      <<"L","i","s","t"," ","r","e","c","e","n","t"," ","c","u","s","t","o",
        "m","e","r","s">>,
      <<"W","h","a","t"," ","c","i","t","i","e","s"," ","d","o"," ","w","e",
        " ","h","a","v","e"," ","c","u","s","t","o","m","e","r","s"," ","i",
        "n","?">>,
      <<"D","R","O","P"," ","e","v","e","r","y","t","h","i","n","g">>,
      <<"w","h","i","c","h"," ","c","i","t","y"," ","i","s"," ","b","e","s",
        "t">> }

\* words of typed questions: How many, count, customers, Top CITIES, best,
\* city, which, latest, DROP
QuestionWords ==
    {
      <<"H","o","w"," ","m","a","n","y">>,
      <<"c","o","u","n","t">>,
      <<"c","u","s","t","o","m","e","r","s">>,
      <<"T","o","p"," ","C","I","T","I","E","S">>,
      <<"b","e","s","t">>,
      <<"c","i","t","y">>,
      <<"w","h","i","c","h">>,
      <<"l","a","t","e","s","t">>,
      <<"D","R","O","P">>
    }

\* pieces of statements handed to the executor: a SELECT, LIMIT clauses in
\* both cases, a semicolon, keywords of the denylist in three cases, and the
\* identifiers last_update and unlimited
StmtFrags ==
    {
      <<"S","E","L","E","C","T"," ","*"," ","F","R","O","M"," ","t">>,
      <<" ","L","I","M","I","T"," ","5">>,
      <<" ","l","i","m","i","t"," ","1","0","0","0">>,
      <<";">>,
      <<" ","d","r","o","p">>,
      <<" ","D","E","L","E","T","E">>,
      <<" ","l","a","s","t","_","u","p","d","a","t","e">>,
      <<" ","T","r","u","n","c","a","t","e">>,
      <<" ","u","n","l","i","m","i","t","e","d">>
    }

\* the texts made of at most n pieces of `pieces`, `sep` between two pieces
RECURSIVE Joined(_, _, _)
Joined(pieces, sep, n) ==
    IF n = 0
    THEN {<<>>}
    ELSE LET shorter == Joined(pieces, sep, n - 1)
         IN  shorter \cup {IF p = <<>> THEN w ELSE p \o sep \o w :
                              p \in shorter, w \in pieces}

Questions == Joined(QuestionWords, <<" ">>, MaxWords)

Statements == Joined(StmtFrags, <<>>, MaxFrags)

\* ------------------------------------------------------------------- state
VARIABLES
    pc,          \* "idle", "asked", "resolved", "rendered", "failed"
    question,    \* user_question of the running request
    sql,         \* the statement generate_sql returned
    via,         \* "model" or "fallback": the path that produced sql
    raised,      \* generate_sql raised to its caller
    caught,      \* the exception generate_sql met, "none" when none
    modelCache,  \* st.cache_resource entry of load_model: "empty" or "loaded"
    loads,       \* times the body of load_model ran
    result,      \* the dict execute_sql_safely returned
    connected,   \* the last executor call opened a connection
    executed,    \* the text the last executor call gave to pd.read_sql
    openConns    \* connections opened by the executor and not closed

vars ==
    <<pc, question, sql, via, raised, caught, modelCache, loads, result,
      connected, executed, openConns>>

NoResult == [pending |-> TRUE]

Fresh ==
    /\ sql = <<>>
    /\ via = "none"
    /\ raised = FALSE
    /\ caught = "none"
    /\ result = NoResult
    /\ connected = FALSE
    /\ executed = <<>>

Init ==
    /\ pc = "idle"
    /\ question = <<>>
    /\ Fresh
    /\ modelCache = "empty"
    /\ loads = 0
    /\ openConns = 0

\* lines 139-151: a question is entered and the button pressed; the script
\* reruns from the top with nothing of the previous run kept
Ask ==
    /\ pc \in {"idle", "rendered", "failed"}
    /\ \E q \in UiQuestions :
          /\ q # <<>>
          /\ question' = q
    /\ pc' = "asked"
    /\ sql' = <<>>
    /\ via' = "none"
    /\ raised' = FALSE
    /\ caught' = "none"
    /\ result' = NoResult
    /\ connected' = FALSE
    /\ executed' = <<>>
    /\ UNCHANGED <<modelCache, loads, openConns>>

\* line 154: sql = generate_sql(user_question)
GenerateSql ==
    /\ pc = "asked"
    /\ modelCache = "loaded" \/ loads < MaxLoads
    /\ \E lo \in LoadOutcomes, io \in InferOutcomes :
          LET g == generate_sql(question, modelCache, [load |-> lo, infer |-> io])
          IN  /\ sql' = g.sql
              /\ via' = g.via
              /\ raised' = g.raised
              /\ caught' = g.exc
              /\ modelCache' = g.cache
              /\ loads' = IF g.ran THEN loads + 1 ELSE loads
              /\ pc' = IF g.raised THEN "failed" ELSE "resolved"
    /\ UNCHANGED <<question, result, connected, executed, openConns>>

\* line 21 on its own: sql = generate_sql_fallback(question)
CallFallback ==
    /\ pc = "asked"
    /\ sql' = generate_sql_fallback(question)
    /\ via' = "fallback"
    /\ pc' = "resolved"
    /\ UNCHANGED <<question, raised, caught, modelCache, loads, result,
                   connected, executed, openConns>>

\* the state after a call of the executor that behaves as `call` says
Returns(call) ==
    \E db \in DbOutcomes :
        LET e == call[db]
            left == IF e.connected /\ ~e.closed THEN 1 ELSE 0
        IN  /\ openConns + left <= MaxConns
            /\ result' = e.result
            /\ connected' = e.connected
            /\ executed' = e.executed
            /\ openConns' = openConns + left

\* line 160: result = execute_sql_safely(sql, db_path)
ExecuteSqlSafely ==
    /\ pc = "resolved"
    /\ Returns(execute_sql_safely(sql, max_rows))
    /\ pc' = "rendered"
    /\ UNCHANGED <<question, sql, via, raised, caught, modelCache, loads>>

Next == Ask \/ GenerateSql \/ ExecuteSqlSafely

\* the page: question, resolver, executor, again and again
Spec == Init /\ [][Next]_vars

\* one call of execute_sql_safely on each statement of Statements
InitExecutor ==
    /\ pc = "resolved"
    /\ question = <<>>
    /\ sql \in Statements
    /\ via = "none"
    /\ raised = FALSE
    /\ caught = "none"
    /\ result = NoResult
    /\ connected = FALSE
    /\ executed = <<>>
    /\ modelCache = "empty"
    /\ loads = 0
    /\ openConns = 0

NextExecutor == ExecuteSqlSafely

SpecExecutor == InitExecutor /\ [][NextExecutor]_vars

\* one call of generate_sql_fallback on each question of Questions, its
\* statement then executed
InitFallback ==
    /\ pc = "asked"
    /\ question \in Questions
    /\ Fresh
    /\ modelCache = "empty"
    /\ loads = 0
    /\ openConns = 0

NextFallback == CallFallback \/ ExecuteSqlSafely

SpecFallback == InitFallback /\ [][NextFallback]_vars

\* ------------------------------------------------------------------ claims
\* the denylist as the specification lists it
SpecKeywords ==
    <<
      <<"D","R","O","P">>,
      <<"D","E","L","E","T","E">>,
      <<"I","N","S","E","R","T">>,
      <<"U","P","D","A","T","E">>,
      <<"A","L","T","E","R">>,
      <<"C","R","E","A","T","E">>,
      <<"T","R","U","N","C","A","T","E">>
    >>

\* the upper-cased text of s contains the i-th keyword of the specification
HasKeyword(i, s) == Contains(SpecKeywords[i], upper(s))

HasDangerous(s) == \E i \in 1..Len(SpecKeywords) : HasKeyword(i, s)

HasLimit(s) == Contains(<<"L","I","M","I","T">>, upper(s))

Returned == pc = "rendered"

\* C1: a statement whose upper-cased text contains a denylisted keyword
\* anywhere is answered with success = false, no connection is opened for the
\* call and no text reaches the database.
C1_DenylistBlocks ==
    (Returned /\ HasDangerous(sql)) =>
        /\ result.success = FALSE
        /\ ~connected
        /\ executed = <<>>
        /\ openConns = 0

\* a keyword in lower case inside an identifier is refused
C1_Witness ==
    /\ Returned
    /\ sql = <<"S","E","L","E","C","T"," ","*"," ","F","R","O","M"," ","t",
               " ","l","a","s","t","_","u","p","d","a","t","e">>
    /\ result.success = FALSE
    /\ ~connected

\* C2 as claimed: after every executor call, failing calls included, no
\* connection opened by the executor is still open.
C2_NoOpenConnection == openConns = 0

\* C3: a statement that passes the denylist and reaches the database is
\* executed unmodified when it contains LIMIT in any case, and otherwise as
\* the statement without its trailing semicolons followed by " LIMIT 100;".
C3_LimitEnforcement ==
    (Returned /\ ~HasDangerous(sql) /\ executed # <<>>) =>
        IF HasLimit(sql)
        THEN executed = sql
        ELSE \E k \in 0..Len(sql) :
                /\ \A j \in (Len(sql) - k + 1)..Len(sql) : sql[j] = ";"
                /\ k < Len(sql) => sql[Len(sql) - k] # ";"
                /\ executed =
                      SubSeq(sql, 1, Len(sql) - k) \o
                      <<" ","L","I","M","I","T"," ","1","0","0",";">>

\* two trailing semicolons are stripped and the limit appended
C3_Witness ==
    /\ Returned
    /\ sql = <<"S","E","L","E","C","T"," ","*"," ","F","R","O","M"," ","t",
               ";",";">>
    /\ executed = <<"S","E","L","E","C","T"," ","*"," ","F","R","O","M"," ",
                    "t"," ","L","I","M","I","T"," ","1","0","0",";">>
    /\ result.success

\* C4 as claimed: a successful call returns at most max_rows rows, whatever
\* the statement.
C4_RowCeiling ==
    (Returned /\ result.success) =>
        /\ result.row_count[2] <= max_rows
        /\ Len(result.data[2]) <= max_rows

\* the five statements as the specification writes them
SpecCountSql ==
    <<"S","E","L","E","C","T"," ","C","O","U","N","T","(","*",")"," ","a","s",
      " ","t","o","t","a","l","_","c","u","s","t","o","m","e","r","s"," ","F",
      "R","O","M"," ","c","u","s","t","o","m","e","r","s",";">>

SpecTopCitySql ==
    <<"S","E","L","E","C","T"," ","c","i","t","y",","," ","C","O","U","N","T",
      "(","*",")"," ","a","s"," ","c","u","s","t","o","m","e","r","_","c","o",
      "u","n","t"," ","F","R","O","M"," ","c","u","s","t","o","m","e","r","s",
      " ","G","R","O","U","P"," ","B","Y"," ","c","i","t","y"," ","O","R","D",
      "E","R"," ","B","Y"," ","c","u","s","t","o","m","e","r","_","c","o","u",
      "n","t"," ","D","E","S","C"," ","L","I","M","I","T"," ","1","0",";">>

SpecCitySql ==
    <<"S","E","L","E","C","T"," ","D","I","S","T","I","N","C","T"," ","c","i",
      "t","y",","," ","C","O","U","N","T","(","*",")"," ","a","s"," ","c","u",
      "s","t","o","m","e","r","_","c","o","u","n","t"," ","F","R","O","M"," ",
      "c","u","s","t","o","m","e","r","s"," ","G","R","O","U","P"," ","B","Y",
      " ","c","i","t","y"," ","O","R","D","E","R"," ","B","Y"," ","c","i","t",
      "y",";">>

SpecRecentSql ==
    <<"S","E","L","E","C","T"," ","*"," ","F","R","O","M"," ","c","u","s","t",
      "o","m","e","r","s"," ","O","R","D","E","R"," ","B","Y"," ","r","e","g",
      "i","s","t","r","a","t","i","o","n","_","d","a","t","e"," ","D","E","S",
      "C"," ","L","I","M","I","T"," ","1","0",";">>

SpecDefaultSql ==
    <<"S","E","L","E","C","T"," ","*"," ","F","R","O","M"," ","c","u","s","t",
      "o","m","e","r","s"," ","L","I","M","I","T"," ","1","0",";">>

\* the rule table as the specification gives it, on the lower-cased question
SpecRuleTable(asked) ==
    LET has(w) == Contains(w, lower(asked))
        count == /\ has(<<"h","o","w"," ","m","a","n","y">>) \/ has(<<"c","o","u","n","t">>)
                 /\ has(<<"c","u","s","t","o","m","e","r">>)
        anyCity == has(<<"c","i","t","y">>) \/ has(<<"c","i","t","i","e","s">>)
        top == (has(<<"t","o","p">>) \/ has(<<"b","e","s","t">>)) /\ anyCity
        which == (has(<<"w","h","a","t">>) \/ has(<<"w","h","i","c","h">>)) /\ anyCity
        recent == has(<<"r","e","c","e","n","t">>) \/ has(<<"l","a","t","e","s","t">>)
    IN  CASE count -> SpecCountSql
          [] ~count /\ top -> SpecTopCitySql
          [] ~count /\ ~top /\ which -> SpecCitySql
          [] ~count /\ ~top /\ ~which /\ recent -> SpecRecentSql
          [] OTHER -> SpecDefaultSql

ViaFallback == via = "fallback" /\ pc \in {"resolved", "rendered"}

\* C5: the statement generate_sql_fallback returns is the one the ordered,
\* first-match-wins rule table of the specification gives for the question.
C5_FirstMatchWins == ViaFallback => sql = SpecRuleTable(question)

\* a question matching the count rule and the top-city rule gets the count
C5_Witness ==
    /\ ViaFallback
    /\ question = <<"c","o","u","n","t"," ","c","u","s","t","o","m","e","r",
                    "s"," ","T","o","p"," ","C","I","T","I","E","S">>
    /\ sql = CountSql

\* C6: generate_sql never raises; it returns a string, and when loading or
\* inference raised, the string is generate_sql_fallback(question).
C6_ErrorsAbsorbed ==
    /\ ~raised
    /\ pc # "failed"
    /\ pc \in {"resolved", "rendered"} =>
          /\ sql \in Seq(Alphabet)
          /\ caught # "none" =>
                (via = "fallback" /\ sql = generate_sql_fallback(question))

\* the NameError of load_model is absorbed into the fallback statement
C6_Witness ==
    /\ pc = "resolved"
    /\ caught = "NameError"
    /\ question = <<"L","i","s","t"," ","r","e","c","e","n","t"," ","c","u",
                    "s","t","o","m","e","r","s">>
    /\ sql = RecentSql

\* C7 as claimed: every returned record has the fields success, data,
\* row_count and error; on success data and row_count are set and error is
\* None, on failure error is a message and data and row_count are None.
C7_UniformRecord ==
    Returned =>
        /\ DOMAIN result = {"success", "data", "row_count", "error"}
        /\ IF result.success
           THEN /\ ~IsNone(result.data)
                /\ ~IsNone(result.row_count)
                /\ IsNone(result.error)
           ELSE /\ ~IsNone(result.error)
                /\ IsNone(result.data)
                /\ IsNone(result.row_count)

\* C8 as claimed: over any sequence of generate_sql calls the body of
\* load_model runs at most once, also when its first run failed.
C8_LoadedAtMostOnce == loads <= 1

\* C9: the error of a refused statement names the first keyword, in the
\* order DROP, DELETE, INSERT, UPDATE, ALTER, CREATE, TRUNCATE, that the
\* statement contains, wherever the keywords stand in the text.
C9_FirstKeywordInListOrder ==
    (Returned /\ HasDangerous(sql)) =>
        \E i \in 1..Len(SpecKeywords) :
            /\ HasKeyword(i, sql)
            /\ \A j \in 1..(i - 1) : ~HasKeyword(j, sql)
            /\ result.error =
                  PyStr(<<"D","a","n","g","e","r","o","u","s"," ","o","p","e",
                          "r","a","t","i","o","n"," ","'">>
                        \o SpecKeywords[i]
                        \o <<"'"," ","n","o","t"," ","a","l","l","o","w","e",
                             "d">>)

\* DELETE stands before drop in the text and DROP is reported
C9_Witness ==
    /\ Returned
    /\ sql = <<" ","D","E","L","E","T","E"," ","d","r","o","p">>
    /\ result.error = PyStr(<<"D","a","n","g","e","r","o","u","s"," ","o","p",
                              "e","r","a","t","i","o","n"," ","'","D","R","O",
                              "P","'"," ","n","o","t"," ","a","l","l","o","w",
                              "e","d">>)

FiveStatements ==
    {SpecCountSql, SpecTopCitySql, SpecCitySql, SpecRecentSql, SpecDefaultSql}

\* C10: the statement of the fallback is one of the five fixed statements,
\* contains no denylisted keyword, and executing it never gives a
\* "Dangerous operation" error.
C10_FallbackNeverDangerous ==
    ViaFallback =>
        /\ sql \in FiveStatements
        /\ ~HasDangerous(sql)
        /\ Returned =>
              \/ IsNone(result.error)
              \/ ~StartsWith(result.error[2], <<"D","a","n","g","e","r","o","u","s"," ",
                                                "o","p","e","r","a","t","i","o","n">>)

\* a question that contains DROP is resolved and executed with success
C10_Witness ==
    /\ ViaFallback
    /\ Returned
    /\ question = <<"D","R","O","P"," ","l","a","t","e","s","t">>
    /\ sql = RecentSql
    /\ result.success
====
